---------------------------- MODULE Spec2Model ----------------------------
(***************************************************************************)
(* FTC alliance win predictor (src/src/App.jsx).                           *)
(*                                                                         *)
(* The program's numbers are JavaScript Numbers (IEEE 754 binary64).  The   *)
(* model keeps them as such: a finite Number is sign * m * 2^e with the     *)
(* significand m an arbitrary-precision natural, and every arithmetic       *)
(* operation computes the exact result and rounds it to 53 significant      *)
(* bits, ties to even, with the subnormal range, the overflow to an         *)
(* infinity and the two zeros of binary64.                                  *)
(* The transcendental functions of jStat (erf, exp) are modelled at a       *)
(* fixed-point resolution by tables (see StdNormalCdf, NormalPdf).          *)
(***************************************************************************)
EXTENDS Integers, Sequences, FiniteSets, TLC

(***************************************************************************)
(* Arbitrary-precision naturals: little-endian sequences of limbs in       *)
(* 0..LimbBase-1 without leading (high) zero limbs; <<>> is 0.              *)
(***************************************************************************)
LimbBits == 15

LimbBase == 2 ^ LimbBits

Pow2(k) == 2 ^ k

IntMin(a, b) == IF a < b THEN a ELSE b

IntMax(a, b) == IF a > b THEN a ELSE b

SetMax(S) == CHOOSE x \in S : \A y \in S : y <= x

SetMin(S) == CHOOSE x \in S : \A y \in S : x <= y

Limb(a, i) == IF i >= 1 /\ i <= Len(a) THEN a[i] ELSE 0

\* a without its leading (high) zero limbs
BTrim(a) ==
  IF a = <<>> \/ a[Len(a)] # 0 THEN a
  ELSE LET nz == {i \in 1..Len(a) : a[i] # 0}
       IN  IF nz = {} THEN <<>> ELSE SubSeq(a, 1, SetMax(nz))

\* for 0 <= n < 2^31
IntToBig(n) ==
  BTrim(<<n % LimbBase, (n \div LimbBase) % LimbBase, n \div (LimbBase * LimbBase)>>)

\* for a < 2^31
BigToInt(a) == Limb(a, 1) + LimbBase * Limb(a, 2) + LimbBase * LimbBase * Limb(a, 3)

\* The carry into limb i of a + b: the nearest lower limb that does not just
\* pass a carry on decides it.
Carry(a, b, i) ==
  IF i = 1 THEN 0
  ELSE IF Limb(a, i - 1) + Limb(b, i - 1) # LimbBase - 1
  THEN (IF Limb(a, i - 1) + Limb(b, i - 1) >= LimbBase THEN 1 ELSE 0)
  ELSE IF \E j \in 1..(i - 2) :
            /\ Limb(a, j) + Limb(b, j) >= LimbBase
            /\ \A k \in (j + 1)..(i - 2) : Limb(a, k) + Limb(b, k) = LimbBase - 1
  THEN 1 ELSE 0

BAdd(a, b) ==
  BTrim([i \in 1..(IntMax(Len(a), Len(b)) + 1) |->
          (Limb(a, i) + Limb(b, i) + Carry(a, b, i)) % LimbBase])

\* The borrow from limb i of a - b: the nearest lower limb in which a and b
\* differ decides it.
Borrow(a, b, i) ==
  IF i = 1 THEN 0
  ELSE IF Limb(a, i - 1) # Limb(b, i - 1)
  THEN (IF Limb(a, i - 1) < Limb(b, i - 1) THEN 1 ELSE 0)
  ELSE IF \E j \in 1..(i - 2) :
            /\ Limb(a, j) < Limb(b, j)
            /\ \A k \in (j + 1)..(i - 2) : Limb(a, k) = Limb(b, k)
  THEN 1 ELSE 0

\* a - b for a >= b
BSub(a, b) ==
  BTrim([i \in 1..Len(a) |-> (a[i] - Limb(b, i) - Borrow(a, b, i)) % LimbBase])

\* -1, 0, 1 as a < b, a = b, a > b
BCmp(a, b) ==
  IF Len(a) < Len(b) THEN -1
  ELSE IF Len(a) > Len(b) THEN 1
  ELSE IF a = <<>> THEN 0
  ELSE IF a[Len(a)] # b[Len(a)] THEN (IF a[Len(a)] < b[Len(a)] THEN -1 ELSE 1)
  ELSE LET diff == {i \in 1..Len(a) : a[i] # b[i]}
           top  == SetMax(diff)
       IN  IF diff = {} THEN 0
           ELSE IF a[top] < b[top] THEN -1 ELSE 1

Zeros(n) == [i \in 1..n |-> 0]

\* a * k for 0 <= k < LimbBase: the low halves of the limb products plus
\* their high halves one limb up
BMulSmall(a, k) ==
  IF k = 0 \/ a = <<>> THEN <<>>
  ELSE BAdd(BTrim([i \in 1..Len(a) |-> (a[i] * k) % LimbBase]),
            BTrim(<<0>> \o [i \in 1..Len(a) |-> (a[i] * k) \div LimbBase]))

\* The schoolbook product, one limb of b per step: st.acc is a times the
\* limbs of b below st.i.
RECURSIVE BMulLoop(_, _, _)
BMulLoop(st, a, b) ==
  IF st.i > Len(b) THEN st.acc
  ELSE BMulLoop([i   |-> st.i + 1,
                 acc |-> BAdd(st.acc, Zeros(st.i - 1) \o BMulSmall(a, b[st.i]))], a, b)

BMul(a, b) ==
  IF a = <<>> \/ b = <<>> THEN <<>>
  ELSE IF Len(a) < Len(b) THEN BMulLoop([i |-> 1, acc |-> <<>>], b, a)
  ELSE BMulLoop([i |-> 1, acc |-> <<>>], a, b)

\* a * 2^k
BShl(a, k) ==
  IF a = <<>> THEN <<>>
  ELSE Zeros(k \div LimbBits) \o BMulSmall(a, Pow2(k % LimbBits))

\* floor(a / 2^k)
BShr(a, k) ==
  LET q == k \div LimbBits
      r == k % LimbBits
      n == Len(a) - q
  IN  IF n <= 0 THEN <<>>
      ELSE BTrim([i \in 1..n |->
                   (a[q + i] \div Pow2(r))
                   + (Limb(a, q + i + 1) % Pow2(r)) * Pow2(LimbBits - r)])

\* bit k (0-based) of a
BBit(a, k) == (Limb(a, (k \div LimbBits) + 1) \div Pow2(k % LimbBits)) % 2

\* the low k bits of a are all zero
BLowZero(a, k) ==
  /\ \A i \in 1..(k \div LimbBits) : Limb(a, i) = 0
  /\ Limb(a, (k \div LimbBits) + 1) % Pow2(k % LimbBits) = 0

\* the number of bits of a limb
IntBitLen(n) == IF n = 0 THEN 0 ELSE CHOOSE k \in 1..LimbBits : n \div Pow2(k - 1) = 1

BBitLen(a) == IF a = <<>> THEN 0 ELSE LimbBits * (Len(a) - 1) + IntBitLen(a[Len(a)])

\* the number of trailing zero bits of a limb n # 0
IntTrailingZeros(n) == CHOOSE k \in 0..(LimbBits - 1) : n % Pow2(k + 1) = Pow2(k)

\* the number of trailing zero bits of a # 0
BTrailingZeros(a) ==
  IF a[1] # 0 THEN IntTrailingZeros(a[1])
  ELSE LET i == SetMin({j \in 1..Len(a) : a[j] # 0})
       IN  LimbBits * (i - 1) + IntTrailingZeros(a[i])

\* One quotient limb of the long division (Knuth's algorithm D): with the top
\* limb of d at least LimbBase/2 and r < d * LimbBase, the estimate from the
\* two top limbs of r is at most 2 too large.
QuotLimb(r, d) ==
  LET L   == Len(d)
      est == (Limb(r, L + 1) * LimbBase + Limb(r, L)) \div d[L]
      q   == IntMin(est, LimbBase - 1)
  IN  IF BCmp(BMulSmall(d, q), r) <= 0 THEN q
      ELSE IF BCmp(BMulSmall(d, q - 1), r) <= 0 THEN q - 1
      ELSE q - 2

\* One step of the long division of n by d: limb i of n is brought down.
DivStep(st, n, d) ==
  LET Step(r, q) == [i |-> st.i - 1, q |-> <<q>> \o st.q, r |-> BSub(r, BMulSmall(d, q))]
      Down(r)    == Step(r, QuotLimb(r, d))
  IN  Down(BTrim(<<n[st.i]>> \o st.r))

RECURSIVE BDivLoop(_, _, _)
BDivLoop(st, n, d) == IF st.i = 0 THEN st ELSE BDivLoop(DivStep(st, n, d), n, d)

\* <<floor(n / d), n mod d>> for d # 0.  Both are shifted to bring the top limb
\* of d to at least LimbBase/2; the top Len(d) - 1 limbs of n are below d.
BDivMod(n, d) ==
  LET s == LimbBits - IntBitLen(d[Len(d)])
      Out(st) == <<BTrim(st.q), BShr(st.r, s)>>
      Run(ns, ds, top) ==
        Out(BDivLoop([i |-> Len(ns) - top, q |-> <<>>,
                      r |-> SubSeq(ns, Len(ns) - top + 1, Len(ns))], ns, ds))
      Div(ns, ds) == Run(ns, ds, IntMin(Len(ns), Len(ds) - 1))
  IN  Div(BShl(n, s), BShl(d, s))

\* Newton's iteration for floor(sqrt(t)) on integers, from a start x >= sqrt(t)
RECURSIVE IntSqrtFrom(_, _)
IntSqrtFrom(t, x) ==
  LET y == (x + t \div x) \div 2
  IN  IF y >= x THEN x ELSE IntSqrtFrom(t, y)

\* Newton's iteration for floor(sqrt(n)) from a start x >= sqrt(n)
RECURSIVE BSqrtFrom(_, _)
BSqrtFrom(n, x) ==
  LET Try(y) == IF BCmp(y, x) >= 0 THEN x ELSE BSqrtFrom(n, y)
  IN  Try(BShr(BAdd(x, BDivMod(n, x)[1]), 1))

\* floor(sqrt(n)).  The start is taken from the top 30 bits of n: with k even
\* and t = floor(n / 2^k) < 2^30, sqrt(n) < (floor(sqrt(t)) + 1) * 2^(k/2).
BSqrt(n) ==
  IF n = <<>> THEN <<>>
  ELSE LET k == 2 * ((IntMax(0, BBitLen(n) - 30) + 1) \div 2)
           t == BigToInt(BShr(n, k))
       IN  BSqrtFrom(n, BShl(IntToBig(IntSqrtFrom(t, LimbBase) + 1), k \div 2))

(***************************************************************************)
(* JavaScript Numbers.  k is "nan", "inf" or "fin"; a finite Number is      *)
(* s * m * 2^e with s in {1, -1} and m odd (or m = 0, e = 0: the zero of    *)
(* sign s).  m has at most 53 bits, e >= -1074 (below 2^-1022 the Numbers   *)
(* are subnormal, with fewer bits) and m * 2^e < 2^1024.                    *)
(***************************************************************************)
Precision == 53

NaN == [k |-> "nan", s |-> 1, m |-> <<>>, e |-> 0]

Inf(s) == [k |-> "inf", s |-> s, m |-> <<>>, e |-> 0]

Zero == [k |-> "fin", s |-> 1, m |-> <<>>, e |-> 0]

\* The Number s * m * 2^e, for m of at most Precision significant bits and
\* e >= -1074: the infinity of sign s from 2^1024 on.
Fin(s, m, e) ==
  IF m = <<>> THEN [k |-> "fin", s |-> s, m |-> <<>>, e |-> 0]
  ELSE IF BBitLen(m) + e > 1024 THEN Inf(s)
  ELSE LET t == BTrailingZeros(m)
       IN  [k |-> "fin", s |-> s, m |-> BShr(m, t), e |-> e + t]

\* The Number nearest to s * (m + f) * 2^e, ties to even, where 0 <= f < 1
\* and st says whether f > 0 (then m has more than Precision bits).  The
\* result keeps at most Precision bits and no bit below 2^-1074, so that a
\* small value is rounded to a subnormal Number or to the zero of sign s.
RoundFin(s, m, e, st) ==
  LET Round(n) ==
        LET Up(q) == IF /\ n > 0
                        /\ BBit(m, n - 1) = 1
                        /\ (st \/ ~BLowZero(m, n - 1) \/ BBit(q, 0) = 1)
                     THEN BAdd(q, <<1>>) ELSE q
        IN  Fin(s, Up(BShr(m, n)), e + n)
  IN  Round(IntMax(0, BBitLen(m) - IntMin(Precision, BBitLen(m) + e + 1074)))

FromInt(n) == IF n < 0 THEN Fin(-1, IntToBig(-n), 0) ELSE Fin(1, IntToBig(n), 0)

IsNaN(x) == x.k = "nan"

IsZero(x) == x.k = "fin" /\ x.m = <<>>

DNeg(x) == IF x.k = "nan" THEN x ELSE [x EXCEPT !.s = -x.s]

\* x + y
DAdd(x, y) ==
  IF x.k = "nan" \/ y.k = "nan" THEN NaN
  ELSE IF x.k = "inf" THEN (IF y.k = "inf" /\ y.s # x.s THEN NaN ELSE x)
  ELSE IF y.k = "inf" THEN y
  ELSE IF x.m = <<>> /\ y.m = <<>> THEN (IF x.s = y.s THEN x ELSE Zero)
  ELSE IF x.m = <<>> THEN y
  ELSE IF y.m = <<>> THEN x
  ELSE LET e == IntMin(x.e, y.e)
           Sum(a, b, c) ==
             IF x.s # y.s /\ c = 0 THEN Zero
             ELSE RoundFin(IF x.s = y.s \/ c > 0 THEN x.s ELSE y.s,
                           IF x.s = y.s THEN BAdd(a, b)
                           ELSE IF c > 0 THEN BSub(a, b) ELSE BSub(b, a),
                           e, FALSE)
           Aligned(a, b) == Sum(a, b, BCmp(a, b))
       IN  Aligned(BShl(x.m, x.e - e), BShl(y.m, y.e - e))

\* x - y
DSub(x, y) == DAdd(x, DNeg(y))

\* x * y
DMul(x, y) ==
  IF x.k = "nan" \/ y.k = "nan" THEN NaN
  ELSE IF x.k = "inf" \/ y.k = "inf"
       THEN (IF IsZero(x) \/ IsZero(y) THEN NaN ELSE Inf(x.s * y.s))
  ELSE RoundFin(x.s * y.s, BMul(x.m, y.m), x.e + y.e, FALSE)

\* x / y
DDiv(x, y) ==
  IF x.k = "nan" \/ y.k = "nan" THEN NaN
  ELSE IF x.k = "inf" THEN (IF y.k = "inf" THEN NaN ELSE Inf(x.s * y.s))
  ELSE IF y.k = "inf" THEN Fin(x.s * y.s, <<>>, 0)
  ELSE IF y.m = <<>> THEN (IF x.m = <<>> THEN NaN ELSE Inf(x.s * y.s))
  ELSE IF x.m = <<>> THEN Fin(x.s * y.s, <<>>, 0)
  ELSE LET Quot(n, qr) == RoundFin(x.s * y.s, qr[1], x.e - n - y.e, qr[2] # <<>>)
           Scaled(n)   == Quot(n, BDivMod(BShl(x.m, n), y.m))
       IN  Scaled(IntMax(0, Precision + 3 + BBitLen(y.m) - BBitLen(x.m)))

\* Math.sqrt(x)
DSqrt(x) ==
  IF x.k = "nan" THEN NaN
  ELSE IF IsZero(x) THEN x
  ELSE IF x.s < 0 THEN NaN
  ELSE IF x.k = "inf" THEN x
  ELSE LET Root(n, w, r) == RoundFin(1, r, (x.e - n) \div 2, BMul(r, r) # w)
           Of(n, w)      == Root(n, w, BSqrt(w))
           Scaled(n)     == Of(n, BShl(x.m, n))
           Even(n0)      == Scaled(n0 + ((x.e - n0) % 2))
       IN  Even(IntMax(0, 2 * (Precision + 2) - BBitLen(x.m)))

\* -1, 0, 1 as x < y, x = y, x > y, for x and y not NaN
DCmp(x, y) ==
  LET Sign(v)  == IF IsZero(v) THEN 0 ELSE v.s
      Top(v)   == BBitLen(v.m) + v.e
      Units(e) == BCmp(BShl(x.m, x.e - e), BShl(y.m, y.e - e))
      \* |x| against |y|, neither of them zero
      Abs == IF x.k = "inf" \/ y.k = "inf"
             THEN (IF x.k = y.k THEN 0 ELSE IF x.k = "inf" THEN 1 ELSE -1)
             ELSE IF Top(x) # Top(y) THEN (IF Top(x) < Top(y) THEN -1 ELSE 1)
             ELSE Units(IntMin(x.e, y.e))
  IN  IF Sign(x) # Sign(y) THEN (IF Sign(x) < Sign(y) THEN -1 ELSE 1)
      ELSE IF Sign(x) = 0 THEN 0
      ELSE Sign(x) * Abs

\* x <= y
DLe(x, y) == x.k # "nan" /\ y.k # "nan" /\ DCmp(x, y) <= 0

\* x < y
DLt(x, y) == x.k # "nan" /\ y.k # "nan" /\ DCmp(x, y) < 0

\* floor(|x| * scale) for x not NaN and 1 <= scale < LimbBase, at most cap,
\* for cap <= 2^16
ScaledFloor(x, scale, cap) ==
  IF x.k = "inf" \/ BBitLen(x.m) + x.e > 16 THEN cap
  ELSE IntMin(cap, BigToInt(IF x.e >= 0 THEN BShl(BMulSmall(x.m, scale), x.e)
                            ELSE BShr(BMulSmall(x.m, scale), -x.e)))

\* Number.prototype.toFixed(2) of a finite x: the decimal n / 100 with n the
\* integer nearest to |x| * 100, the larger one on a tie, and "-" in front
\* when x < 0 (not for -0).  NaN prints as "NaN".  A decimal is kept as
\* [k, s, n].
ToFixed2(x) ==
  IF x.k # "fin" THEN [k |-> x.k, s |-> x.s, n |-> <<>>]
  ELSE LET Nearest(t) == IF x.e >= 0 THEN BShl(t, x.e)
                         ELSE BAdd(BShr(t, -x.e), IntToBig(BBit(t, -x.e - 1)))
       IN  [k |-> "fin", s |-> IF IsZero(x) THEN 1 ELSE x.s,
            n |-> Nearest(BMulSmall(x.m, 100))]

\* parseFloat of a string that toFixed(2) printed: the Number nearest to n / 100
ParseFloat(d) ==
  IF d.k = "nan" THEN NaN
  ELSE IF d.k = "inf" THEN Inf(d.s)
  ELSE DDiv([k |-> "fin", s |-> d.s, m |-> d.n, e |-> 0], FromInt(100))

(***************************************************************************)
(* jStat.  sum, mean, sumsqerr, variance and stdev are Number arithmetic   *)
(* and are modelled exactly.  normal.cdf(z, 0, 1) and normal.pdf go through *)
(* erf and exp; they are modelled from tables of the standard normal       *)
(* distribution at steps of 0.1, linearly interpolated: the cdf in units   *)
(* of 1/CdfScale, the density in units of 1/PdfScale.                      *)
(***************************************************************************)
\* jStat.sum: var i = arr.length; while (--i >= 0) sum += arr[i]
RECURSIVE SumLoop(_, _)
SumLoop(st, arr) ==
  IF st.i = 0 THEN st.sum
  ELSE SumLoop([i |-> st.i - 1, sum |-> DAdd(st.sum, arr[st.i])], arr)

JSum(arr) == SumLoop([i |-> Len(arr), sum |-> Zero], arr)

\* jStat.mean: sum(arr) / arr.length
JMean(arr) == DDiv(JSum(arr), FromInt(Len(arr)))

\* jStat.sumsqerr: tmp = arr[i] - mean; sum += tmp * tmp, from the last element
RECURSIVE SumSqErrLoop(_, _, _)
SumSqErrLoop(st, arr, mean) ==
  IF st.i = 0 THEN st.sum
  ELSE LET Sq(tmp) == DMul(tmp, tmp)
       IN  SumSqErrLoop([i   |-> st.i - 1,
                         sum |-> DAdd(st.sum, Sq(DSub(arr[st.i], mean)))], arr, mean)

JSumSqErr(arr) == SumSqErrLoop([i |-> Len(arr), sum |-> Zero], arr, JMean(arr))

\* jStat.variance(arr, true): sumsqerr(arr) / (arr.length - 1)
JVariance(arr) == DDiv(JSumSqErr(arr), FromInt(Len(arr) - 1))

\* jStat.stdev(arr, true): Math.sqrt(variance(arr, true))
JStdev(arr) == DSqrt(JVariance(arr))

CdfScale == 10000

PdfScale == 1000000

TableStep == 100

TableMax == 4000

\* CdfScale * Phi(i / 10) for i = 0..40
CdfTable ==
  <<5000, 5398, 5793, 6179, 6554, 6915, 7257, 7580, 7881, 8159,
    8413, 8643, 8849, 9032, 9192, 9332, 9452, 9554, 9641, 9713,
    9772, 9821, 9861, 9893, 9918, 9938, 9953, 9965, 9974, 9981,
    9987, 9990, 9993, 9995, 9997, 9998, 9998, 9999, 9999, 10000,
    10000>>

\* PdfScale * phi(i / 10) for i = 0..40
PdfTable ==
  <<398942, 396953, 391043, 381388, 368270, 352065, 333225, 312254, 289692, 266085,
    241971, 217852, 194186, 171369, 149727, 129518, 110921, 94049, 78950, 65616,
    53991, 43984, 35475, 28327, 22395, 17528, 13583, 10421, 7915, 5953,
    4432, 3267, 2384, 1723, 1232, 873, 612, 425, 292, 199,
    134>>

\* table[u] for u in thousandths, 0 <= u <= TableMax, interpolated
Interpolate(table, u) ==
  LET i == u \div TableStep
      f == u % TableStep
  IN  IF f = 0 THEN table[i + 1]
      ELSE table[i + 1] + ((table[i + 2] - table[i + 1]) * f) \div TableStep

\* The upper tail 1 - Phi(|z|), which jStat.erf computes first (its res / 2)
\* and then reflects by the sign of its argument.
UpperTail(z) == CdfScale - Interpolate(CdfTable, ScaledFloor(z, 1000, TableMax))

\* jStat.normal.cdf(z, 0, 1) = 0.5 * (1 + erf(z / sqrt(2)))
StdNormalCdf(z) ==
  IF z.k = "nan" THEN NaN
  ELSE IF z.k = "inf" THEN (IF z.s > 0 THEN FromInt(1) ELSE Zero)
  ELSE DDiv(FromInt(IF z.s < 0 THEN UpperTail(z) ELSE CdfScale - UpperTail(z)),
            FromInt(CdfScale))

\* jStat.normal.pdf(x, mean, std) =
\*   exp(-0.5 * log(2 * PI) - log(std) - pow(x - mean, 2) / (2 * std * std))
NormalPdf(x, mean, std) ==
  LET Table(q, u) ==
        IF q.k = "nan" THEN NaN
        ELSE IF q.k = "inf" \/ u > TableMax THEN Zero
        ELSE DDiv(DDiv(FromInt(Interpolate(PdfTable, u)), FromInt(PdfScale)), std)
      Pdf(d) ==
        IF d.k = "nan" \/ std.k = "nan" THEN NaN
        ELSE IF IsZero(std) \/ std.s < 0 THEN NaN
        ELSE IF std.k = "inf" THEN (IF d.k = "inf" THEN NaN ELSE Zero)
        ELSE IF d.k = "inf" THEN Zero
        ELSE Table(DDiv(DMul(d, d), DMul(DMul(FromInt(2), std), std)),
                   ScaledFloor(DDiv(d, std), 1000, TableMax + 1))
  IN  Pdf(DSub(x, mean))

(***************************************************************************)
(* Strings are sequences of one-character strings.  A character outside     *)
(* ASCII is written as its JSON escape: "\\u274c" is the one character       *)
(* U+274C.  A string that is only stored and compared is kept as a TLA+      *)
(* string, in the same JSON form.  The alliance tag of a team entry, which   *)
(* the program lower-cases, is kept as the sequence of its UTF-16 code       *)
(* units: "Red" is <<82, 101, 100>>.                                         *)
(***************************************************************************)
Digits == {"0", "1", "2", "3", "4", "5", "6", "7", "8", "9"}

\* the value of a digit of parseInt, in any radix up to 16
DigitVal(c) ==
  CASE c = "0" -> 0 [] c = "1" -> 1 [] c = "2" -> 2 [] c = "3" -> 3 [] c = "4" -> 4
    [] c = "5" -> 5 [] c = "6" -> 6 [] c = "7" -> 7 [] c = "8" -> 8 [] c = "9" -> 9
    [] c \in {"a", "A"} -> 10 [] c \in {"b", "B"} -> 11 [] c \in {"c", "C"} -> 12
    [] c \in {"d", "D"} -> 13 [] c \in {"e", "E"} -> 14 [] c \in {"f", "F"} -> 15

\* the digits parseInt accepts in radix 10 and in radix 16
RadixDigits(radix) ==
  IF radix = 16
  THEN Digits \cup {"a", "b", "c", "d", "e", "f", "A", "B", "C", "D", "E", "F"}
  ELSE Digits

\* white space and line terminators, which parseInt skips at the start
WhiteSpace ==
  {" ", "\t", "\n", "\f", "\r", "\\u000b", "\\u00a0", "\\ufeff", "\\u2028", "\\u2029",
   "\\u1680", "\\u2000", "\\u2001", "\\u2002", "\\u2003", "\\u2004", "\\u2005",
   "\\u2006", "\\u2007", "\\u2008", "\\u2009", "\\u200a", "\\u202f", "\\u205f",
   "\\u3000"}

\* value.replace(/\D/, ""): the regular expression has no g flag, so only the
\* first character that is not a digit is removed
RECURSIVE ReplaceFirstNonDigit(_)
ReplaceFirstNonDigit(value) ==
  IF value = <<>> THEN <<>>
  ELSE IF Head(value) \notin Digits THEN Tail(value)
  ELSE <<Head(value)>> \o ReplaceFirstNonDigit(Tail(value))

RECURSIVE DigitsPrefix(_, _, _)
DigitsPrefix(str, radix, acc) ==
  IF str = <<>> \/ Head(str) \notin RadixDigits(radix) THEN acc
  ELSE DigitsPrefix(Tail(str), radix, radix * acc + DigitVal(Head(str)))

RECURSIVE SkipSpaces(_)
SkipSpaces(str) ==
  IF str # <<>> /\ Head(str) \in WhiteSpace THEN SkipSpaces(Tail(str)) ELSE str

\* parseInt(str) without a radix: leading white space, an optional sign, an
\* optional 0x or 0X that selects radix 16, then the longest prefix of digits
\* of the radix; NaN when there is no digit
ParseInt(str) ==
  LET t     == SkipSpaces(str)
      neg   == t # <<>> /\ Head(t) = "-"
      rest  == IF t # <<>> /\ Head(t) \in {"-", "+"} THEN Tail(t) ELSE t
      hex   == Len(rest) >= 2 /\ rest[1] = "0" /\ rest[2] \in {"x", "X"}
      radix == IF hex THEN 16 ELSE 10
      body  == IF hex THEN SubSeq(rest, 3, Len(rest)) ELSE rest
  IN  IF body = <<>> \/ Head(body) \notin RadixDigits(radix)
      THEN [nan |-> TRUE, v |-> 0]
      ELSE [nan |-> FALSE,
            v   |-> IF neg THEN -DigitsPrefix(body, radix, 0)
                    ELSE DigitsPrefix(body, radix, 0)]

\* The lower-case mappings of the characters outside ASCII (U+0130 and
\* U+03A3 apart): the characters lo, lo + step, ... up to hi map to
\* themselves plus delta.  Each entry is <<lo, hi, delta, step>>.
LowerRanges ==
  << <<192, 214, 32, 1>>, <<216, 222, 32, 1>>, <<256, 302, 1, 2>>, <<306, 310, 1, 2>>,
     <<313, 327, 1, 2>>, <<330, 374, 1, 2>>, <<376, 376, -121, 1>>, <<377, 381, 1, 2>>,
     <<385, 385, 210, 1>>, <<386, 388, 1, 2>>, <<390, 390, 206, 1>>, <<391, 391, 1, 1>>,
     <<393, 394, 205, 1>>, <<395, 395, 1, 1>>, <<398, 398, 79, 1>>, <<399, 399, 202, 1>>,
     <<400, 400, 203, 1>>, <<401, 401, 1, 1>>, <<403, 403, 205, 1>>, <<404, 404, 207, 1>>,
     <<406, 406, 211, 1>>, <<407, 407, 209, 1>>, <<408, 408, 1, 1>>, <<412, 412, 211, 1>>,
     <<413, 413, 213, 1>>, <<415, 415, 214, 1>>, <<416, 420, 1, 2>>, <<422, 422, 218, 1>>,
     <<423, 423, 1, 1>>, <<425, 425, 218, 1>>, <<428, 428, 1, 1>>, <<430, 430, 218, 1>>,
     <<431, 431, 1, 1>>, <<433, 434, 217, 1>>, <<435, 437, 1, 2>>, <<439, 439, 219, 1>>,
     <<440, 440, 1, 1>>, <<444, 444, 1, 1>>, <<452, 452, 2, 1>>, <<453, 453, 1, 1>>,
     <<455, 455, 2, 1>>, <<456, 456, 1, 1>>, <<458, 458, 2, 1>>, <<459, 475, 1, 2>>,
     <<478, 494, 1, 2>>, <<497, 497, 2, 1>>, <<498, 500, 1, 2>>, <<502, 502, -97, 1>>,
     <<503, 503, -56, 1>>, <<504, 542, 1, 2>>, <<544, 544, -130, 1>>, <<546, 562, 1, 2>>,
     <<570, 570, 10795, 1>>, <<571, 571, 1, 1>>, <<573, 573, -163, 1>>, <<574, 574, 10792, 1>>,
     <<577, 577, 1, 1>>, <<579, 579, -195, 1>>, <<580, 580, 69, 1>>, <<581, 581, 71, 1>>,
     <<582, 590, 1, 2>>, <<880, 882, 1, 2>>, <<886, 886, 1, 1>>, <<895, 895, 116, 1>>,
     <<902, 902, 38, 1>>, <<904, 906, 37, 1>>, <<908, 908, 64, 1>>, <<910, 911, 63, 1>>,
     <<913, 929, 32, 1>>, <<931, 939, 32, 1>>, <<975, 975, 8, 1>>, <<984, 1006, 1, 2>>,
     <<1012, 1012, -60, 1>>, <<1015, 1015, 1, 1>>, <<1017, 1017, -7, 1>>, <<1018, 1018, 1, 1>>,
     <<1021, 1023, -130, 1>>, <<1024, 1039, 80, 1>>, <<1040, 1071, 32, 1>>, <<1120, 1152, 1, 2>>,
     <<1162, 1214, 1, 2>>, <<1216, 1216, 15, 1>>, <<1217, 1229, 1, 2>>, <<1232, 1326, 1, 2>>,
     <<1329, 1366, 48, 1>>, <<4256, 4293, 7264, 1>>, <<4295, 4295, 7264, 1>>, <<4301, 4301, 7264, 1>>,
     <<5024, 5103, 38864, 1>>, <<5104, 5109, 8, 1>>, <<7305, 7305, 1, 1>>, <<7312, 7354, -3008, 1>>,
     <<7357, 7359, -3008, 1>>, <<7680, 7828, 1, 2>>, <<7838, 7838, -7615, 1>>, <<7840, 7934, 1, 2>>,
     <<7944, 7951, -8, 1>>, <<7960, 7965, -8, 1>>, <<7976, 7983, -8, 1>>, <<7992, 7999, -8, 1>>,
     <<8008, 8013, -8, 1>>, <<8025, 8031, -8, 2>>, <<8040, 8047, -8, 1>>, <<8072, 8079, -8, 1>>,
     <<8088, 8095, -8, 1>>, <<8104, 8111, -8, 1>>, <<8120, 8121, -8, 1>>, <<8122, 8123, -74, 1>>,
     <<8124, 8124, -9, 1>>, <<8136, 8139, -86, 1>>, <<8140, 8140, -9, 1>>, <<8152, 8153, -8, 1>>,
     <<8154, 8155, -100, 1>>, <<8168, 8169, -8, 1>>, <<8170, 8171, -112, 1>>, <<8172, 8172, -7, 1>>,
     <<8184, 8185, -128, 1>>, <<8186, 8187, -126, 1>>, <<8188, 8188, -9, 1>>, <<8486, 8486, -7517, 1>>,
     <<8490, 8490, -8383, 1>>, <<8491, 8491, -8262, 1>>, <<8498, 8498, 28, 1>>, <<8544, 8559, 16, 1>>,
     <<8579, 8579, 1, 1>>, <<9398, 9423, 26, 1>>, <<11264, 11311, 48, 1>>, <<11360, 11360, 1, 1>>,
     <<11362, 11362, -10743, 1>>, <<11363, 11363, -3814, 1>>, <<11364, 11364, -10727, 1>>, <<11367, 11371, 1, 2>>,
     <<11373, 11373, -10780, 1>>, <<11374, 11374, -10749, 1>>, <<11375, 11375, -10783, 1>>, <<11376, 11376, -10782, 1>>,
     <<11378, 11378, 1, 1>>, <<11381, 11381, 1, 1>>, <<11390, 11391, -10815, 1>>, <<11392, 11490, 1, 2>>,
     <<11499, 11501, 1, 2>>, <<11506, 11506, 1, 1>>, <<42560, 42604, 1, 2>>, <<42624, 42650, 1, 2>>,
     <<42786, 42798, 1, 2>>, <<42802, 42862, 1, 2>>, <<42873, 42875, 1, 2>>, <<42877, 42877, -35332, 1>>,
     <<42878, 42886, 1, 2>>, <<42891, 42891, 1, 1>>, <<42893, 42893, -42280, 1>>, <<42896, 42898, 1, 2>>,
     <<42902, 42920, 1, 2>>, <<42922, 42922, -42308, 1>>, <<42923, 42923, -42319, 1>>, <<42924, 42924, -42315, 1>>,
     <<42925, 42925, -42305, 1>>, <<42926, 42926, -42308, 1>>, <<42928, 42928, -42258, 1>>, <<42929, 42929, -42282, 1>>,
     <<42930, 42930, -42261, 1>>, <<42931, 42931, 928, 1>>, <<42932, 42946, 1, 2>>, <<42948, 42948, -48, 1>>,
     <<42949, 42949, -42307, 1>>, <<42950, 42950, -35384, 1>>, <<42951, 42953, 1, 2>>, <<42955, 42955, -42343, 1>>,
     <<42956, 42970, 1, 2>>, <<42972, 42972, -42561, 1>>, <<42997, 42997, 1, 1>>, <<65313, 65338, 32, 1>>,
     <<66560, 66599, 40, 1>>, <<66736, 66771, 40, 1>>, <<66928, 66938, 39, 1>>, <<66940, 66954, 39, 1>>,
     <<66956, 66962, 39, 1>>, <<66964, 66965, 39, 1>>, <<68736, 68786, 64, 1>>, <<68944, 68965, 32, 1>>,
     <<71840, 71871, 32, 1>>, <<93760, 93791, 32, 1>>, <<93856, 93880, 27, 1>>, <<125184, 125217, 34, 1>> >>

\* The case-ignorable characters, as ranges <<lo, hi>>.
CaseIgnorable ==
  << <<39, 39>>, <<46, 46>>, <<58, 58>>, <<94, 94>>, <<96, 96>>, <<168, 168>>,
     <<173, 173>>, <<175, 175>>, <<180, 180>>, <<183, 184>>, <<688, 879>>, <<884, 885>>,
     <<890, 890>>, <<900, 901>>, <<903, 903>>, <<1155, 1161>>, <<1369, 1369>>, <<1375, 1375>>,
     <<1425, 1469>>, <<1471, 1471>>, <<1473, 1474>>, <<1476, 1477>>, <<1479, 1479>>, <<1524, 1524>>,
     <<1536, 1541>>, <<1552, 1562>>, <<1564, 1564>>, <<1600, 1600>>, <<1611, 1631>>, <<1648, 1648>>,
     <<1750, 1757>>, <<1759, 1768>>, <<1770, 1773>>, <<1807, 1807>>, <<1809, 1809>>, <<1840, 1866>>,
     <<1958, 1968>>, <<2027, 2037>>, <<2042, 2042>>, <<2045, 2045>>, <<2070, 2093>>, <<2137, 2139>>,
     <<2184, 2184>>, <<2192, 2193>>, <<2199, 2207>>, <<2249, 2306>>, <<2362, 2362>>, <<2364, 2364>>,
     <<2369, 2376>>, <<2381, 2381>>, <<2385, 2391>>, <<2402, 2403>>, <<2417, 2417>>, <<2433, 2433>>,
     <<2492, 2492>>, <<2497, 2500>>, <<2509, 2509>>, <<2530, 2531>>, <<2558, 2558>>, <<2561, 2562>>,
     <<2620, 2620>>, <<2625, 2626>>, <<2631, 2632>>, <<2635, 2637>>, <<2641, 2641>>, <<2672, 2673>>,
     <<2677, 2677>>, <<2689, 2690>>, <<2748, 2748>>, <<2753, 2757>>, <<2759, 2760>>, <<2765, 2765>>,
     <<2786, 2787>>, <<2810, 2815>>, <<2817, 2817>>, <<2876, 2876>>, <<2879, 2879>>, <<2881, 2884>>,
     <<2893, 2893>>, <<2901, 2902>>, <<2914, 2915>>, <<2946, 2946>>, <<3008, 3008>>, <<3021, 3021>>,
     <<3072, 3072>>, <<3076, 3076>>, <<3132, 3132>>, <<3134, 3136>>, <<3142, 3144>>, <<3146, 3149>>,
     <<3157, 3158>>, <<3170, 3171>>, <<3201, 3201>>, <<3260, 3260>>, <<3263, 3263>>, <<3270, 3270>>,
     <<3276, 3277>>, <<3298, 3299>>, <<3328, 3329>>, <<3387, 3388>>, <<3393, 3396>>, <<3405, 3405>>,
     <<3426, 3427>>, <<3457, 3457>>, <<3530, 3530>>, <<3538, 3540>>, <<3542, 3542>>, <<3633, 3633>>,
     <<3636, 3642>>, <<3654, 3662>>, <<3761, 3761>>, <<3764, 3772>>, <<3782, 3782>>, <<3784, 3790>>,
     <<3864, 3865>>, <<3893, 3893>>, <<3895, 3895>>, <<3897, 3897>>, <<3953, 3966>>, <<3968, 3972>>,
     <<3974, 3975>>, <<3981, 3991>>, <<3993, 4028>>, <<4038, 4038>>, <<4141, 4144>>, <<4146, 4151>>,
     <<4153, 4154>>, <<4157, 4158>>, <<4184, 4185>>, <<4190, 4192>>, <<4209, 4212>>, <<4226, 4226>>,
     <<4229, 4230>>, <<4237, 4237>>, <<4253, 4253>>, <<4348, 4348>>, <<4957, 4959>>, <<5906, 5908>>,
     <<5938, 5939>>, <<5970, 5971>>, <<6002, 6003>>, <<6068, 6069>>, <<6071, 6077>>, <<6086, 6086>>,
     <<6089, 6099>>, <<6103, 6103>>, <<6109, 6109>>, <<6155, 6159>>, <<6211, 6211>>, <<6277, 6278>>,
     <<6313, 6313>>, <<6432, 6434>>, <<6439, 6440>>, <<6450, 6450>>, <<6457, 6459>>, <<6679, 6680>>,
     <<6683, 6683>>, <<6742, 6742>>, <<6744, 6750>>, <<6752, 6752>>, <<6754, 6754>>, <<6757, 6764>>,
     <<6771, 6780>>, <<6783, 6783>>, <<6823, 6823>>, <<6832, 6877>>, <<6880, 6891>>, <<6912, 6915>>,
     <<6964, 6964>>, <<6966, 6970>>, <<6972, 6972>>, <<6978, 6978>>, <<7019, 7027>>, <<7040, 7041>>,
     <<7074, 7077>>, <<7080, 7081>>, <<7083, 7085>>, <<7142, 7142>>, <<7144, 7145>>, <<7149, 7149>>,
     <<7151, 7153>>, <<7212, 7219>>, <<7222, 7223>>, <<7288, 7293>>, <<7376, 7378>>, <<7380, 7392>>,
     <<7394, 7400>>, <<7405, 7405>>, <<7412, 7412>>, <<7416, 7417>>, <<7468, 7530>>, <<7544, 7544>>,
     <<7579, 7679>>, <<8125, 8125>>, <<8127, 8129>>, <<8141, 8143>>, <<8157, 8159>>, <<8173, 8175>>,
     <<8189, 8190>>, <<8203, 8207>>, <<8216, 8217>>, <<8228, 8228>>, <<8231, 8231>>, <<8234, 8238>>,
     <<8288, 8292>>, <<8294, 8303>>, <<8305, 8305>>, <<8319, 8319>>, <<8336, 8348>>, <<8400, 8432>>,
     <<11388, 11389>>, <<11503, 11505>>, <<11631, 11631>>, <<11647, 11647>>, <<11744, 11775>>, <<11823, 11823>>,
     <<12293, 12293>>, <<12330, 12333>>, <<12337, 12341>>, <<12347, 12347>>, <<12441, 12446>>, <<12540, 12542>>,
     <<40981, 40981>>, <<42232, 42237>>, <<42508, 42508>>, <<42607, 42610>>, <<42612, 42621>>, <<42623, 42623>>,
     <<42652, 42655>>, <<42736, 42737>>, <<42752, 42785>>, <<42864, 42864>>, <<42888, 42890>>, <<42993, 42996>>,
     <<43000, 43001>>, <<43010, 43010>>, <<43014, 43014>>, <<43019, 43019>>, <<43045, 43046>>, <<43052, 43052>>,
     <<43204, 43205>>, <<43232, 43249>>, <<43263, 43263>>, <<43302, 43309>>, <<43335, 43345>>, <<43392, 43394>>,
     <<43443, 43443>>, <<43446, 43449>>, <<43452, 43453>>, <<43471, 43471>>, <<43493, 43494>>, <<43561, 43566>>,
     <<43569, 43570>>, <<43573, 43574>>, <<43587, 43587>>, <<43596, 43596>>, <<43632, 43632>>, <<43644, 43644>>,
     <<43696, 43696>>, <<43698, 43700>>, <<43703, 43704>>, <<43710, 43711>>, <<43713, 43713>>, <<43741, 43741>>,
     <<43756, 43757>>, <<43763, 43764>>, <<43766, 43766>>, <<43867, 43871>>, <<43881, 43883>>, <<44005, 44005>>,
     <<44008, 44008>>, <<44013, 44013>>, <<64286, 64286>>, <<64434, 64450>>, <<65024, 65039>>, <<65043, 65043>>,
     <<65056, 65071>>, <<65106, 65106>>, <<65109, 65109>>, <<65279, 65279>>, <<65287, 65287>>, <<65294, 65294>>,
     <<65306, 65306>>, <<65342, 65342>>, <<65344, 65344>>, <<65392, 65392>>, <<65438, 65439>>, <<65507, 65507>>,
     <<65529, 65531>>, <<66045, 66045>>, <<66272, 66272>>, <<66422, 66426>>, <<67456, 67461>>, <<67463, 67504>>,
     <<67506, 67514>>, <<68097, 68099>>, <<68101, 68102>>, <<68108, 68111>>, <<68152, 68154>>, <<68159, 68159>>,
     <<68325, 68326>>, <<68900, 68903>>, <<68942, 68942>>, <<68969, 68973>>, <<68975, 68975>>, <<69291, 69292>>,
     <<69317, 69317>>, <<69370, 69375>>, <<69446, 69456>>, <<69506, 69509>>, <<69633, 69633>>, <<69688, 69702>>,
     <<69744, 69744>>, <<69747, 69748>>, <<69759, 69761>>, <<69811, 69814>>, <<69817, 69818>>, <<69821, 69821>>,
     <<69826, 69826>>, <<69837, 69837>>, <<69888, 69890>>, <<69927, 69931>>, <<69933, 69940>>, <<70003, 70003>>,
     <<70016, 70017>>, <<70070, 70078>>, <<70089, 70092>>, <<70095, 70095>>, <<70191, 70193>>, <<70196, 70196>>,
     <<70198, 70199>>, <<70206, 70206>>, <<70209, 70209>>, <<70367, 70367>>, <<70371, 70378>>, <<70400, 70401>>,
     <<70459, 70460>>, <<70464, 70464>>, <<70502, 70508>>, <<70512, 70516>>, <<70587, 70592>>, <<70606, 70606>>,
     <<70608, 70608>>, <<70610, 70610>>, <<70625, 70626>>, <<70712, 70719>>, <<70722, 70724>>, <<70726, 70726>>,
     <<70750, 70750>>, <<70835, 70840>>, <<70842, 70842>>, <<70847, 70848>>, <<70850, 70851>>, <<71090, 71093>>,
     <<71100, 71101>>, <<71103, 71104>>, <<71132, 71133>>, <<71219, 71226>>, <<71229, 71229>>, <<71231, 71232>>,
     <<71339, 71339>>, <<71341, 71341>>, <<71344, 71349>>, <<71351, 71351>>, <<71453, 71453>>, <<71455, 71455>>, <<71458, 71461>>,
     <<71463, 71467>>, <<71727, 71735>>, <<71737, 71738>>, <<71995, 71996>>, <<71998, 71998>>, <<72003, 72003>>,
     <<72148, 72151>>, <<72154, 72155>>, <<72160, 72160>>, <<72193, 72202>>, <<72243, 72248>>, <<72251, 72254>>,
     <<72263, 72263>>, <<72273, 72278>>, <<72281, 72283>>, <<72330, 72342>>, <<72344, 72345>>, <<72544, 72544>>,
     <<72546, 72548>>, <<72550, 72550>>, <<72752, 72758>>, <<72760, 72765>>, <<72767, 72767>>, <<72850, 72871>>,
     <<72874, 72880>>, <<72882, 72883>>, <<72885, 72886>>, <<73009, 73014>>, <<73018, 73018>>, <<73020, 73021>>,
     <<73023, 73029>>, <<73031, 73031>>, <<73104, 73105>>, <<73109, 73109>>, <<73111, 73111>>, <<73177, 73177>>,
     <<73459, 73460>>, <<73472, 73473>>, <<73526, 73530>>, <<73536, 73536>>, <<73538, 73538>>, <<73562, 73562>>,
     <<78896, 78912>>, <<78919, 78933>>, <<90398, 90409>>, <<90413, 90415>>, <<92912, 92916>>, <<92976, 92982>>,
     <<92992, 92995>>, <<93504, 93506>>, <<93547, 93548>>, <<94031, 94031>>, <<94095, 94111>>, <<94176, 94177>>,
     <<94179, 94180>>, <<94194, 94195>>, <<110576, 110579>>, <<110581, 110587>>, <<110589, 110590>>, <<113821, 113822>>,
     <<113824, 113827>>, <<118528, 118573>>, <<118576, 118598>>, <<119143, 119145>>, <<119155, 119170>>, <<119173, 119179>>,
     <<119210, 119213>>, <<119362, 119364>>, <<121344, 121398>>, <<121403, 121452>>, <<121461, 121461>>, <<121476, 121476>>,
     <<121499, 121503>>, <<121505, 121519>>, <<122880, 122886>>, <<122888, 122904>>, <<122907, 122913>>, <<122915, 122916>>,
     <<122918, 122922>>, <<122928, 122989>>, <<123023, 123023>>, <<123184, 123197>>, <<123566, 123566>>, <<123628, 123631>>,
     <<124139, 124143>>, <<124398, 124399>>, <<124643, 124643>>, <<124646, 124646>>, <<124654, 124655>>, <<124661, 124661>>,
     <<124671, 124671>>, <<125136, 125142>>, <<125252, 125259>>, <<127995, 127999>>, <<917505, 917505>>, <<917536, 917631>>,
     <<917760, 917999>> >>

\* The cased characters that are not case-ignorable, as ranges <<lo, hi>>.
Cased ==
  << <<65, 90>>, <<97, 122>>, <<170, 170>>, <<181, 181>>, <<186, 186>>, <<192, 214>>,
     <<216, 246>>, <<248, 442>>, <<444, 447>>, <<452, 659>>, <<662, 687>>, <<880, 883>>,
     <<886, 887>>, <<891, 893>>, <<895, 895>>, <<902, 902>>, <<904, 906>>, <<908, 908>>,
     <<910, 929>>, <<931, 1013>>, <<1015, 1153>>, <<1162, 1327>>, <<1329, 1366>>, <<1376, 1416>>,
     <<4256, 4293>>, <<4295, 4295>>, <<4301, 4301>>, <<4304, 4346>>, <<4349, 4351>>, <<5024, 5109>>,
     <<5112, 5117>>, <<7296, 7306>>, <<7312, 7354>>, <<7357, 7359>>, <<7424, 7467>>, <<7531, 7543>>,
     <<7545, 7578>>, <<7680, 7957>>, <<7960, 7965>>, <<7968, 8005>>, <<8008, 8013>>, <<8016, 8023>>,
     <<8025, 8025>>, <<8027, 8027>>, <<8029, 8029>>, <<8031, 8061>>, <<8064, 8116>>, <<8118, 8124>>,
     <<8126, 8126>>, <<8130, 8132>>, <<8134, 8140>>, <<8144, 8147>>, <<8150, 8155>>, <<8160, 8172>>,
     <<8178, 8180>>, <<8182, 8188>>, <<8450, 8450>>, <<8455, 8455>>, <<8458, 8467>>, <<8469, 8469>>,
     <<8473, 8477>>, <<8484, 8484>>, <<8486, 8486>>, <<8488, 8488>>, <<8490, 8493>>, <<8495, 8500>>,
     <<8505, 8505>>, <<8508, 8511>>, <<8517, 8521>>, <<8526, 8526>>, <<8544, 8575>>, <<8579, 8580>>,
     <<9398, 9449>>, <<11264, 11387>>, <<11390, 11492>>, <<11499, 11502>>, <<11506, 11507>>, <<11520, 11557>>,
     <<11559, 11559>>, <<11565, 11565>>, <<42560, 42605>>, <<42624, 42651>>, <<42786, 42863>>, <<42865, 42887>>,
     <<42891, 42894>>, <<42896, 42972>>, <<42997, 42998>>, <<43002, 43002>>, <<43824, 43866>>, <<43872, 43880>>,
     <<43888, 43967>>, <<64256, 64262>>, <<64275, 64279>>, <<65313, 65338>>, <<65345, 65370>>, <<66560, 66639>>,
     <<66736, 66771>>, <<66776, 66811>>, <<66928, 66938>>, <<66940, 66954>>, <<66956, 66962>>, <<66964, 66965>>,
     <<66967, 66977>>, <<66979, 66993>>, <<66995, 67001>>, <<67003, 67004>>, <<68736, 68786>>, <<68800, 68850>>,
     <<68944, 68965>>, <<68976, 68997>>, <<71840, 71903>>, <<93760, 93823>>, <<93856, 93880>>, <<93883, 93907>>,
     <<119808, 119892>>, <<119894, 119964>>, <<119966, 119967>>, <<119970, 119970>>, <<119973, 119974>>, <<119977, 119980>>,
     <<119982, 119993>>, <<119995, 119995>>, <<119997, 120003>>, <<120005, 120069>>, <<120071, 120074>>, <<120077, 120084>>,
     <<120086, 120092>>, <<120094, 120121>>, <<120123, 120126>>, <<120128, 120132>>, <<120134, 120134>>, <<120138, 120144>>,
     <<120146, 120485>>, <<120488, 120512>>, <<120514, 120538>>, <<120540, 120570>>, <<120572, 120596>>, <<120598, 120628>>,
     <<120630, 120654>>, <<120656, 120686>>, <<120688, 120712>>, <<120714, 120744>>, <<120746, 120770>>, <<120772, 120779>>,
     <<122624, 122633>>, <<122635, 122654>>, <<122661, 122666>>, <<125184, 125251>>, <<127280, 127305>>, <<127312, 127337>>,
     <<127344, 127369>> >>

InRanges(c, ranges) == \E i \in DOMAIN ranges : c >= ranges[i][1] /\ c <= ranges[i][2]

\* the code points of a string: a high surrogate followed by a low surrogate
\* is one code point, any other code unit is a code point of its own
RECURSIVE CodePointsFrom(_, _)
CodePointsFrom(str, i) ==
  IF i > Len(str) THEN <<>>
  ELSE IF /\ str[i] >= 55296 /\ str[i] <= 56319 /\ i < Len(str)
          /\ str[i + 1] >= 56320 /\ str[i + 1] <= 57343
       THEN <<65536 + (str[i] - 55296) * 1024 + (str[i + 1] - 56320)>>
            \o CodePointsFrom(str, i + 2)
       ELSE <<str[i]>> \o CodePointsFrom(str, i + 1)

\* the UTF-16 code units of a code point
CodeUnits(c) ==
  IF c < 65536 THEN <<c>>
  ELSE <<55296 + ((c - 65536) \div 1024), 56320 + ((c - 65536) % 1024)>>

\* Final_Sigma: the character at i follows a cased letter and then any number
\* of case-ignorable characters, and no cased letter follows it after any
\* number of case-ignorable characters
FinalSigma(cps, i) ==
  LET Around(ignorable, cased) ==
        LET before == {j \in 1..(i - 1) : ~InRanges(cps[j], ignorable)}
            after  == {j \in (i + 1)..Len(cps) : ~InRanges(cps[j], ignorable)}
        IN  /\ before # {}
            /\ InRanges(cps[SetMax(before)], cased)
            /\ after = {} \/ ~InRanges(cps[SetMin(after)], cased)
  IN  Around(CaseIgnorable, Cased)

\* the lower-case form of the code point c outside U+03A3: the code points it
\* maps to
LowerChar(c) ==
  LET Mapped(ranges) ==
        LET hit == {i \in DOMAIN ranges :
                      /\ c >= ranges[i][1] /\ c <= ranges[i][2]
                      /\ (c - ranges[i][1]) % ranges[i][4] = 0}
        IN  IF hit = {} THEN <<c>> ELSE <<c + ranges[CHOOSE i \in hit : TRUE][3]>>
  IN  IF c >= 65 /\ c <= 90 THEN <<c + 32>>
      ELSE IF c < 128 THEN <<c>>
      ELSE IF c = 304 THEN <<105, 775>>
      ELSE Mapped(LowerRanges)

RECURSIVE LowerFrom(_, _)
LowerFrom(cps, i) ==
  LET Units(low) == IF Len(low) = 2 THEN CodeUnits(low[1]) \o CodeUnits(low[2])
                    ELSE CodeUnits(low[1])
  IN  IF i > Len(cps) THEN <<>>
      ELSE Units(IF cps[i] = 931
                 THEN (IF FinalSigma(cps, i) THEN <<962>> ELSE <<963>>)
                 ELSE LowerChar(cps[i]))
           \o LowerFrom(cps, i + 1)

\* String.prototype.toLowerCase, on the UTF-16 code units of the string
ToLowerCase(str) == LowerFrom(CodePointsFrom(str, 1), 1)

(***************************************************************************)
(* The remote API (api.ftcscout.org), as far as the program reads it.       *)
(*   api.events[team]  : the entries of /teams/<team>/events/2024, each     *)
(*                       [eventCode, stats] with stats = (entry.stats != null) *)
(*   api.matches[code] : the matches of /events/2024/<code>/matches, each   *)
(*                       [teams, scores]; a field that may be missing or    *)
(*                       null carries a flag "present".  The points of a    *)
(*                       score entry are Numbers.                           *)
(***************************************************************************)
\* the value undefined
Undefined == [k |-> "undefined", s |-> 1, m |-> <<>>, e |-> 0]

\* a score entry that is missing or null
NoScore ==
  [present |-> FALSE, autoSpecimenPoints |-> Zero, autoSamplePoints |-> Zero,
   dcSpecimenPoints |-> Zero, dcSamplePoints |-> Zero]

Score(aS, as, dS, ds) ==
  [present |-> TRUE, autoSpecimenPoints |-> FromInt(aS), autoSamplePoints |-> FromInt(as),
   dcSpecimenPoints |-> FromInt(dS), dcSamplePoints |-> FromInt(ds)]

Match(teamList, red, blue) ==
  [teams  |-> [present |-> TRUE, list |-> teamList],
   scores |-> [present |-> TRUE, red |-> red, blue |-> blue]]

TeamEntry(n, alliance) == [teamNumber |-> n, alliance |-> alliance]

\* headers: the request options; they do not influence what is read
\* getEventCodes: data.filter(entry => entry.stats != null).map(entry => entry.eventCode)
getEventCodes(entries) ==
  LET kept == SelectSeq(entries, LAMBDA entry : entry.stats)
  IN  [i \in 1..Len(kept) |-> kept[i].eventCode]

\* Array.prototype.find: the index of the first entry of the team, 0 if none
RECURSIVE FindTeam(_, _, _)
FindTeam(list, teamNumber, i) ==
  IF i > Len(list) THEN 0
  ELSE IF list[i].teamNumber = teamNumber THEN i
  ELSE FindTeam(list, teamNumber, i + 1)

\* match.scores?.[color]: the entry red or blue of the scores object itself,
\* or what the object inherits under the name color.  The inherited names that
\* a lower-cased string can be are "constructor" (the function Object) and
\* "__proto__" (Object.prototype): objects, without any of the four points.
ScoreOf(scores, color) ==
  IF ~scores.present THEN NoScore
  ELSE IF color = <<114, 101, 100>> THEN scores.red
  ELSE IF color = <<98, 108, 117, 101>> THEN scores.blue
  ELSE IF color \in {<<99, 111, 110, 115, 116, 114, 117, 99, 116, 111, 114>>,
                     <<95, 95, 112, 114, 111, 116, 111, 95, 95>>}
       THEN [present |-> TRUE, autoSpecimenPoints |-> Undefined, autoSamplePoints |-> Undefined,
             dcSpecimenPoints |-> Undefined, dcSamplePoints |-> Undefined]
  ELSE NoScore

EmptyResults ==
  [autoSpecimen |-> <<>>, autoSample |-> <<>>, dcSpecimen |-> <<>>, dcSample |-> <<>>]

\* the body of the loop of getMatches for one match
PushMatch(results, match, teamNumber) ==
  LET Push(score) ==
        IF score.present
        THEN [autoSpecimen |-> Append(results.autoSpecimen, score.autoSpecimenPoints),
              autoSample   |-> Append(results.autoSample, score.autoSamplePoints),
              dcSpecimen   |-> Append(results.dcSpecimen, score.dcSpecimenPoints),
              dcSample     |-> Append(results.dcSample, score.dcSamplePoints)]
        ELSE results
      Entry(list, k) ==
        IF k = 0 THEN results
        ELSE Push(ScoreOf(match.scores, ToLowerCase(list[k].alliance)))
      Find(list) == Entry(list, FindTeam(list, teamNumber, 1))
  IN  Find(IF match.teams.present THEN match.teams.list ELSE <<>>)

RECURSIVE GetMatchesFrom(_, _, _)
GetMatchesFrom(data, teamNumber, n) ==
  IF n = 0 THEN EmptyResults
  ELSE PushMatch(GetMatchesFrom(data, teamNumber, n - 1), data[n], teamNumber)

\* getMatches(eventCode, teamNumber), given the data the request returned
getMatches(data, teamNumber) == GetMatchesFrom(data, teamNumber, Len(data))

\* the Number an operand of + stands for: undefined is NaN
ToNumber(v) == IF v = Undefined THEN NaN ELSE v

\* a.map((v, i) => v + (b[i] || 0)): undefined, NaN and the zeros are falsy
addArrays(a, b) ==
  [i \in 1..Len(a) |->
     DAdd(ToNumber(a[i]),
          IF i <= Len(b) /\ b[i] # Undefined /\ ~IsNaN(b[i]) /\ ~IsZero(b[i])
          THEN b[i] ELSE Zero)]

\* arr.map((v) => v + scalar), scalar an integer
addScalar(arr, scalar) == [i \in 1..Len(arr) |-> DAdd(ToNumber(arr[i]), FromInt(scalar))]

\* A variant of EventTotals that takes the tele-op mode from the autonomous
\* selector.
EventTotalsOneSelector(match, auto, tele, endgame) ==
  addScalar(addArrays(IF auto = "s" THEN match.autoSample ELSE match.autoSpecimen,
                      IF auto = "s" THEN match.dcSample ELSE match.dcSpecimen),
            endgame)

\* the body of the loop of getAllScores for one event: the totals of the event
EventTotals(match, auto, tele, endgame) ==
  addScalar(addArrays(IF auto = "s" THEN match.autoSample ELSE match.autoSpecimen,
                      IF tele = "s" THEN match.dcSample ELSE match.dcSpecimen),
            endgame)

\* getAllScores(team, auto, tele, endgame) run to its end on the data a of
\* the API: the totals of events[1..n], event by event
RECURSIVE AllScoresUpTo(_, _, _, _, _, _, _)
AllScoresUpTo(a, events, n, team, auto, tele, endgame) ==
  IF n = 0 THEN <<>>
  ELSE AllScoresUpTo(a, events, n - 1, team, auto, tele, endgame)
       \o EventTotals(getMatches(a.matches[events[n]], team), auto, tele, endgame)

getAllScores(a, team, auto, tele, endgame) ==
  LET events == getEventCodes(a.events[team])
  IN  AllScoresUpTo(a, events, Len(events), team, auto, tele, endgame)

(***************************************************************************)
(* The state.                                                               *)
(***************************************************************************)
VARIABLES
  teams,      \* useState: the four team forms
  result,     \* useState: the number printed in the result line, or null
  chartData,  \* useState: the points of the chart
  loading,    \* useState
  error,      \* useState: the message shown, or null
  pc,         \* where calculate is: "idle", "awaitAll", "red", "blue"
  fetch,      \* the four getAllScores invocations of Promise.all
  stats,      \* calculate's stats: <<mean, stdev>> per team
  redData,    \* calculate's redData
  gen,        \* the running invocation of generateNormalData
  api,        \* the data of the remote API
  edits,      \* how many times update has run
  prob        \* an invocation of allianceWinProbability on its own

vars == <<teams, result, chartData, loading, error, pc, fetch, stats, redData,
          gen, api, edits, prob>>

Slots == 1..4

None == [k |-> "none", s |-> 1, m |-> <<>>, e |-> 0]

NullResult == [k |-> "null", s |-> 1, n |-> <<>>]

NoError == "null"

NumberError == "Please enter a valid team number for all teams."

EndError == "Please enter valid endgame points for all teams."

\* the message starts with the character U+274C
ComputeError == "\\u274c Error computing probability."

(***************************************************************************)
(* generateNormalData(mean, std, label), one loop iteration per step.       *)
(***************************************************************************)
\* A call that returns has pushed at most 75 points: x has to grow in every
\* iteration, by a whole number of units in its last place, and step is a
\* fiftieth of max - min.  A loop that pushes MaxPoints points never ends.
MaxPoints == 76

IdleGen ==
  [pc |-> "idle", mean |-> None, std |-> None, label |-> "", max |-> None,
   step |-> None, x |-> None, data |-> <<>>, spill |-> 0]

\* lines 109-112 and the loop's initialisation x = min
generateNormalData(mean, std, label) ==
  LET Start(min, max) ==
        [pc |-> "loop", mean |-> mean, std |-> std, label |-> label, max |-> max,
         step |-> DDiv(DSub(max, min), FromInt(50)), x |-> min, data |-> <<>>,
         spill |-> 0]
  IN  Start(DSub(mean, DMul(FromInt(3), std)), DAdd(mean, DMul(FromInt(3), std)))

\* the point that one iteration pushes
CurvePoint(g) ==
  [x |-> ParseFloat(ToFixed2(g.x)), y |-> NormalPdf(g.x, g.mean, g.std), label |-> g.label]

\* The loop test x <= max and, when it holds, the body and x += step.  The
\* model records the first MaxPoints points; of the points that a loop
\* without end pushes after them it keeps only the parity of their number
\* (spill), and the loop goes on.
LoopStep(g) ==
  IF DLe(g.x, g.max)
  THEN [g EXCEPT !.data = IF Len(g.data) < MaxPoints THEN Append(g.data, CurvePoint(g))
                          ELSE g.data,
                 !.spill = IF Len(g.data) < MaxPoints THEN g.spill ELSE 1 - g.spill,
                 !.x = DAdd(g.x, g.step)]
  ELSE [g EXCEPT !.pc = "done"]

GenStep ==
  /\ gen.pc = "loop"
  /\ gen' = LoopStep(gen)
  /\ UNCHANGED <<teams, result, chartData, loading, error, pc, fetch, stats,
                 redData, api, edits, prob>>

(***************************************************************************)
(* allianceWinProbability                                                  *)
(***************************************************************************)
Square(x) == DMul(x, x)

\* A variant of muD that leaves out the second teammate of the blue alliance.
muDWithoutMate(mu1, mu2, mu3, mu4) == DSub(DAdd(mu1, mu2), mu3)

\* muD = muA - muB with muA = mu1 + mu2 and muB = mu3 + mu4
muD(mu1, mu2, mu3, mu4) == DSub(DAdd(mu1, mu2), DAdd(mu3, mu4))

\* sigmaD = Math.sqrt(varA + varB) with varA = sigma1^2 + sigma2^2 and
\* varB = sigma3^2 + sigma4^2
sigmaD(sigma1, sigma2, sigma3, sigma4) ==
  DSqrt(DAdd(DAdd(Square(sigma1), Square(sigma2)), DAdd(Square(sigma3), Square(sigma4))))

\* jStat.normal.cdf(muD / sigmaD, 0, 1)
allianceWinProbability(mu1, sigma1, mu2, sigma2, mu3, sigma3, mu4, sigma4) ==
  StdNormalCdf(DDiv(muD(mu1, mu2, mu3, mu4), sigmaD(sigma1, sigma2, sigma3, sigma4)))

(***************************************************************************)
(* getAllScores(team, auto, tele, endgame) as a process: one step per       *)
(* awaited request.                                                        *)
(***************************************************************************)
NoFetch ==
  [pc |-> "none", team |-> 0, auto |-> "", tele |-> "", endgame |-> 0,
   events |-> <<>>, next |-> 1, allScores |-> <<>>]

\* the call: let allScores = []; the request of getEventCodes is sent
StartFetch(team, auto, tele, endgame) ==
  [pc |-> "getEventCodes", team |-> team, auto |-> auto, tele |-> tele,
   endgame |-> endgame, events |-> <<>>, next |-> 1, allScores |-> <<>>]

\* const events = await getEventCodes(team)
AfterEventCodes(f, a) ==
  IF f.team \notin DOMAIN a.events THEN [f EXCEPT !.pc = "failed"]
  ELSE LET events == getEventCodes(a.events[f.team])
       IN  [f EXCEPT !.events = events,
                     !.pc = IF events = <<>> THEN "done" ELSE "getMatches"]

\* A variant of ConcatTotals in which the four invocations share one allScores.
ConcatShared(fs, i, total) ==
  [j \in DOMAIN fs |-> [fs[j] EXCEPT !.allScores = fs[j].allScores \o total]]

\* allScores = allScores.concat(total)
ConcatTotals(fs, i, total) == [fs EXCEPT ![i].allScores = fs[i].allScores \o total]

\* const match = await getMatches(event, team) and the rest of the loop body
AfterMatches(fs, i, a) ==
  LET f == fs[i]
      Next(fs2) == [fs2 EXCEPT ![i].next = f.next + 1,
                               ![i].pc = IF f.next = Len(f.events) THEN "done"
                                         ELSE "getMatches"]
  IN  Next(ConcatTotals(fs, i, EventTotals(getMatches(a.matches[f.events[f.next]], f.team),
                                           f.auto, f.tele, f.endgame)))

GetEventCodesDone(i) ==
  /\ fetch[i].pc = "getEventCodes"
  /\ fetch' = [fetch EXCEPT ![i] = AfterEventCodes(fetch[i], api)]
  /\ UNCHANGED <<teams, result, chartData, loading, error, pc, stats, redData,
                 gen, api, edits, prob>>

GetMatchesDone(i) ==
  /\ fetch[i].pc = "getMatches"
  /\ fetch' = AfterMatches(fetch, i, api)
  /\ UNCHANGED <<teams, result, chartData, loading, error, pc, stats, redData,
                 gen, api, edits, prob>>

\* a request is rejected (the network, or a response that is not JSON)
FetchFail(i) ==
  /\ fetch[i].pc \in {"getEventCodes", "getMatches"}
  /\ fetch' = [fetch EXCEPT ![i].pc = "failed"]
  /\ UNCHANGED <<teams, result, chartData, loading, error, pc, stats, redData,
                 gen, api, edits, prob>>

(***************************************************************************)
(* App: update and calculate.                                               *)
(***************************************************************************)
\* four edits fill in the team numbers; a fifth changes a field before,
\* during or after a calculation
MaxEdits == 5

\* useState's initial value; end: 30 is kept as the string parseInt reads
InitialTeams ==
  [i \in Slots |->
    [label  |-> CASE i = 1 -> "Red Team 1" [] i = 2 -> "Red Team 2"
                  [] i = 3 -> "Blue Team 1" [] OTHER -> "Blue Team 2",
     number |-> <<>>,
     auto   |-> IF i \in {1, 3} THEN "S" ELSE "s",
     tele   |-> IF i \in {1, 3} THEN "S" ELSE "s",
     end    |-> <<"3", "0">>]]

\* the events the user produces: <<slot, field, value of the input element>>
EditChoices ==
  { <<1, "number", <<"7">>>>,
    <<2, "number", <<"0", "x", "x", "7">>>>,
    <<3, "number", <<"7">>>>, <<3, "number", <<"8">>>>,
    <<4, "number", <<"x", "8">>>>,
    <<1, "end", <<>>>>, <<3, "end", <<"0">>>>,
    <<1, "tele", "s">> }

update(i, field, value) ==
  /\ pc \in {"idle", "awaitAll"}
  /\ edits < MaxEdits
  /\ teams' = [teams EXCEPT ![i][field] =
                 IF field = "number" \/ field = "end"
                 THEN (IF value = <<>> THEN <<>> ELSE ReplaceFirstNonDigit(value))
                 ELSE value]
  /\ edits' = edits + 1
  /\ UNCHANGED <<result, chartData, loading, error, pc, fetch, stats, redData,
                 gen, api, prob>>

\* the validation loop of calculate: the first message it sets, or null
RECURSIVE ValidateFrom(_, _)
ValidateFrom(ts, i) ==
  IF i > Len(ts) THEN NoError
  ELSE IF ts[i].number = <<>> \/ ParseInt(ts[i].number).nan THEN NumberError
  ELSE IF ts[i].end = <<>> \/ ParseInt(ts[i].end).nan THEN EndError
  ELSE ValidateFrom(ts, i + 1)

\* teams.map((t) => getAllScores(parseInt(t.number), t.auto, t.tele, parseInt(t.end)))
StartAll(ts) ==
  [i \in Slots |->
    StartFetch(ParseInt(ts[i].number).v, ts[i].auto, ts[i].tele, ParseInt(ts[i].end).v)]

\* A variant of calculate that leaves out setResult(null) and so keeps the
\* result of the calculation before.
calculateKeepsResult ==
  /\ pc = "idle"
  /\ ~loading
  /\ chartData' = <<>>
  /\ IF ValidateFrom(teams, 1) # NoError
     THEN /\ error' = ValidateFrom(teams, 1)
          /\ UNCHANGED <<loading, pc, fetch>>
     ELSE /\ error' = NoError
          /\ loading' = TRUE
          /\ fetch' = StartAll(teams)
          /\ pc' = "awaitAll"
  /\ UNCHANGED <<teams, result, stats, redData, gen, api, edits, prob>>

\* calculate, up to its return or its first await; the button is disabled
\* while loading
calculate ==
  /\ pc = "idle"
  /\ ~loading
  /\ result' = NullResult
  /\ chartData' = <<>>
  /\ IF ValidateFrom(teams, 1) # NoError
     THEN /\ error' = ValidateFrom(teams, 1)
          /\ UNCHANGED <<loading, pc, fetch>>
     ELSE /\ error' = NoError
          /\ loading' = TRUE
          /\ fetch' = StartAll(teams)
          /\ pc' = "awaitAll"
  /\ UNCHANGED <<teams, stats, redData, gen, api, edits, prob>>

\* what Promise.all resolves to: the series of the four invocations, by index
Scores(fs) == [i \in Slots |-> fs[i].allScores]

\* scores.map((s) => [jStat.mean(s), jStat.stdev(s, true)])
Stats(scores) == [i \in Slots |-> <<JMean(scores[i]), JStdev(scores[i])>>]

WinProb(st) ==
  allianceWinProbability(st[1][1], st[1][2], st[2][1], st[2][2],
                         st[3][1], st[3][2], st[4][1], st[4][2])

\* the number in `${(winProb * 100).toFixed(2)}%`
ResultText(winProb) == ToFixed2(DMul(winProb, FromInt(100)))

AllianceMean(st, a, b) == DAdd(st[a][1], st[b][1])

AllianceStd(st, a, b) == DSqrt(DAdd(Square(st[a][2]), Square(st[b][2])))

\* Promise.all has resolved: stats, winProb, setResult and the call of
\* generateNormalData for the red alliance
Resolved ==
  /\ pc = "awaitAll"
  /\ \A i \in Slots : fetch[i].pc = "done"
  /\ stats' = Stats(Scores(fetch))
  /\ result' = ResultText(WinProb(stats'))
  /\ gen' = generateNormalData(AllianceMean(stats', 1, 2), AllianceStd(stats', 1, 2),
                               "Red Alliance")
  /\ pc' = "red"
  /\ UNCHANGED <<teams, chartData, loading, error, fetch, redData, api, edits, prob>>

\* Promise.all has rejected: the catch block and setLoading(false).  The other
\* invocations run on, but nothing reads what they return.
Rejected ==
  /\ pc = "awaitAll"
  /\ \E i \in Slots : fetch[i].pc = "failed"
  /\ error' = ComputeError
  /\ loading' = FALSE
  /\ pc' = "idle"
  /\ fetch' = [i \in Slots |-> NoFetch]
  /\ UNCHANGED <<teams, result, chartData, stats, redData, gen, api, edits, prob>>

\* redData is returned; generateNormalData is called for the blue alliance
RedDone ==
  /\ pc = "red"
  /\ gen.pc = "done"
  /\ redData' = gen.data
  /\ gen' = generateNormalData(AllianceMean(stats, 3, 4), AllianceStd(stats, 3, 4),
                               "Blue Alliance")
  /\ pc' = "blue"
  /\ UNCHANGED <<teams, result, chartData, loading, error, fetch, stats, api,
                 edits, prob>>

\* blueData is returned; setChartData([...redData, ...blueData]); setLoading(false)
BlueDone ==
  /\ pc = "blue"
  /\ gen.pc = "done"
  /\ chartData' = redData \o gen.data
  /\ loading' = FALSE
  /\ pc' = "idle"
  /\ fetch' = [i \in Slots |-> NoFetch]
  /\ stats' = <<>>
  /\ redData' = <<>>
  /\ gen' = IdleGen
  /\ UNCHANGED <<teams, result, error, api, edits, prob>>

(***************************************************************************)
(* The application: what the remote API holds, the initial state, the       *)
(* next-state relation.                                                     *)
(***************************************************************************)
\* Team 7: two matches at E1 (red), E2 without stats, one match at E3 (blue).
\* Team 8: the two matches at E1 (blue), with the same points in both.
Season ==
  [events  |-> (7 :> << [eventCode |-> "E1", stats |-> TRUE],
                        [eventCode |-> "E2", stats |-> FALSE],
                        [eventCode |-> "E3", stats |-> TRUE] >>)
            @@ (8 :> << [eventCode |-> "E1", stats |-> TRUE] >>),
   matches |-> ("E1" :> << Match(<<TeamEntry(7, <<82, 101, 100>>), TeamEntry(8, <<66, 108, 117, 101>>)>>,
                                 Score(10, 2, 20, 6), Score(5, 5, 15, 15)),
                           Match(<<TeamEntry(7, <<82, 101, 100>>), TeamEntry(8, <<66, 108, 117, 101>>)>>,
                                 Score(20, 4, 30, 8), Score(5, 5, 15, 15)) >>)
            @@ ("E2" :> << Match(<<TeamEntry(7, <<82, 101, 100>>), TeamEntry(8, <<66, 108, 117, 101>>)>>,
                                 Score(90, 90, 90, 90), Score(90, 90, 90, 90)) >>)
            @@ ("E3" :> << Match(<<TeamEntry(8, <<82, 101, 100>>), TeamEntry(7, <<66, 108, 117, 101>>)>>,
                                 NoScore, Score(0, 6, 10, 10)) >>)]

\* Team 7 has played one match; team 8 is registered for no event.
EarlySeason ==
  [events  |-> (7 :> << [eventCode |-> "E1", stats |-> TRUE] >>) @@ (8 :> << >>),
   matches |-> ("E1" :> << Match(<<TeamEntry(7, <<82, 101, 100>>)>>, Score(10, 2, 20, 6), NoScore) >>)]

Init ==
  /\ teams = InitialTeams
  /\ result = NullResult
  /\ chartData = <<>>
  /\ loading = FALSE
  /\ error = NoError
  /\ pc = "idle"
  /\ fetch = [i \in Slots |-> NoFetch]
  /\ stats = <<>>
  /\ redData = <<>>
  /\ gen = IdleGen
  /\ api \in {Season, EarlySeason}
  /\ edits = 0
  /\ prob = <<>>

Update == \E c \in EditChoices : update(c[1], c[2], c[3])

Settle(i) == GetEventCodesDone(i) \/ GetMatchesDone(i) \/ FetchFail(i)

Next ==
  \/ Update
  \/ calculate
  \/ \E i \in Slots : GetEventCodesDone(i)
  \/ \E i \in Slots : GetMatchesDone(i)
  \/ \E i \in Slots : FetchFail(i)
  \/ Resolved
  \/ Rejected
  \/ GenStep
  \/ RedDone
  \/ BlueDone

Spec == Init /\ [][Next]_vars

\* ENABLED <<A>>_vars of the steps below, written out as their guards: each
\* of these steps changes fetch, pc or gen.
Pending(i) == fetch[i].pc \in {"getEventCodes", "getMatches"}

AllFulfilled == pc = "awaitAll" /\ \A i \in Slots : fetch[i].pc = "done"

InLoop == gen.pc = "loop"

RedReturns == pc = "red" /\ gen.pc = "done"

\* The requests settle and the synchronous code of calculate runs on; the
\* user is free never to type or click.  This is weak fairness of Settle(i),
\* Resolved, GenStep, RedDone, Rejected and BlueDone.
FairSpec ==
  /\ Spec
  /\ \A i \in Slots : []<>(~Pending(i)) \/ []<><<Settle(i)>>_vars
  /\ []<>(~AllFulfilled) \/ []<><<Resolved>>_vars
  /\ []<>(~InLoop) \/ []<><<GenStep>>_vars
  /\ []<>(~RedReturns) \/ []<><<RedDone>>_vars
  /\ WF_vars(Rejected)
  /\ WF_vars(BlueDone)

(***************************************************************************)
(* generateNormalData on its own: SpecCurve runs the loop on each input.    *)
(***************************************************************************)
\* the doubles 0.1, 0.05, Math.sqrt(800) and 102.5
Tenth == [k |-> "fin", s |-> 1, m |-> <<19661,6553,13107,102>>, e |-> -55]

Root800 == [k |-> "fin", s |-> 1, m |-> <<31787,12288,17548,3>>, e |-> -42]

Half205 == [k |-> "fin", s |-> 1, m |-> <<205>>, e |-> -1]

\* the double of an odd integer below 2^15, with its sign
Odd(s, n) == [k |-> "fin", s |-> s, m |-> <<n>>, e |-> 0]

\* the last mean is 3 * 2^52, where neighbouring Numbers are 2 apart
CurveMeans == {Zero, Odd(1, 15), Half205, Odd(-1, 3), Fin(1, <<3>>, 52), NaN}

CurveStds == {Zero, Odd(1, 1), Odd(1, 5), Odd(1, 23), Root800, Tenth,
              DDiv(FromInt(1), FromInt(20)), NaN}

\* the arguments of a call that has not started
Call(mean, std, label) ==
  [IdleGen EXCEPT !.pc = "call", !.mean = mean, !.std = std, !.label = label]

CurveInit ==
  /\ teams = InitialTeams
  /\ result = NullResult
  /\ chartData = <<>>
  /\ loading = FALSE
  /\ error = NoError
  /\ pc = "curve"
  /\ fetch = [i \in Slots |-> NoFetch]
  /\ stats = <<>>
  /\ redData = <<>>
  /\ \E mean \in CurveMeans, std \in CurveStds, label \in {"Red Alliance", "Blue Alliance"} :
       gen = Call(mean, std, label)
  /\ api = EarlySeason
  /\ edits = 0
  /\ prob = <<>>

CurveCall ==
  /\ gen.pc = "call"
  /\ gen' = generateNormalData(gen.mean, gen.std, gen.label)
  /\ UNCHANGED <<teams, result, chartData, loading, error, pc, fetch, stats,
                 redData, api, edits, prob>>

CurveNext == CurveCall \/ GenStep

SpecCurve == CurveInit /\ [][CurveNext]_vars

(***************************************************************************)
(* getAllScores on its own: SpecScores runs one invocation for team 7 on    *)
(* each event list, each list of matches and each scoring-mode              *)
(* configuration.                                                           *)
(***************************************************************************)
MaxMatches == 2

MatchChoices ==
  { Match(<<TeamEntry(7, <<82, 101, 100>>), TeamEntry(8, <<66, 108, 117, 101>>)>>,
          Score(10, 2, 20, 6), Score(5, 4, 15, 8)),
    Match(<<TeamEntry(8, <<82, 69, 68>>), TeamEntry(7, <<66, 76, 85, 69>>)>>,
          Score(1, 3, 5, 7), Score(0, 6, 10, 12)),
    Match(<<TeamEntry(8, <<82, 101, 100>>), TeamEntry(9, <<66, 108, 117, 101>>)>>,
          Score(2, 2, 2, 2), Score(4, 4, 4, 4)),
    Match(<<TeamEntry(7, <<82, 101, 100>>), TeamEntry(8, <<66, 108, 117, 101>>)>>,
          NoScore, Score(3, 3, 3, 3)),
    Match(<<TeamEntry(7, <<67, 111, 110, 115, 116, 114, 117, 99, 116, 111, 114>>),
            TeamEntry(8, <<66, 108, 117, 101>>)>>,
          Score(1, 1, 1, 1), Score(3, 3, 3, 3)),
    [teams  |-> [present |-> TRUE, list |-> <<TeamEntry(7, <<66, 108, 117, 101>>), TeamEntry(8, <<82, 101, 100>>)>>],
     scores |-> [present |-> FALSE, red |-> NoScore, blue |-> NoScore]],
    [teams  |-> [present |-> FALSE, list |-> <<>>],
     scores |-> [present |-> TRUE, red |-> Score(6, 6, 6, 6), blue |-> Score(8, 8, 8, 8)]] }

MatchLists == UNION {[1..n -> MatchChoices] : n \in 0..MaxMatches}

\* the second event: a usable match, an unusable one, a usable one
OtherMatches ==
  << Match(<<TeamEntry(7, <<66, 108, 117, 101>>), TeamEntry(9, <<82, 101, 100>>)>>,
           Score(7, 7, 7, 7), Score(11, 13, 17, 19)),
     Match(<<TeamEntry(9, <<82, 101, 100>>), TeamEntry(8, <<66, 108, 117, 101>>)>>,
           Score(2, 2, 2, 2), Score(4, 4, 4, 4)),
     Match(<<TeamEntry(9, <<66, 108, 117, 101>>), TeamEntry(7, <<82, 101, 100>>)>>,
           Score(23, 29, 31, 37), Score(9, 9, 9, 9)) >>

EventLists ==
  { << [eventCode |-> a, stats |-> sa], [eventCode |-> b, stats |-> sb] >> :
      a \in {"E1", "E2"}, b \in {"E1", "E2"}, sa \in BOOLEAN, sb \in BOOLEAN }

ScoreWorlds ==
  { [events  |-> (7 :> ev),
     matches |-> ("E1" :> ms) @@ ("E2" :> OtherMatches)] :
      ev \in EventLists, ms \in MatchLists }

ScoresInit ==
  /\ teams = InitialTeams
  /\ result = NullResult
  /\ chartData = <<>>
  /\ loading = FALSE
  /\ error = NoError
  /\ pc = "scores"
  /\ \E auto \in {"S", "s"}, tele \in {"S", "s"}, endgame \in {0, 30} :
       fetch = [i \in Slots |-> IF i = 1 THEN StartFetch(7, auto, tele, endgame)
                                ELSE NoFetch]
  /\ stats = <<>>
  /\ redData = <<>>
  /\ gen = IdleGen
  /\ api \in ScoreWorlds
  /\ edits = 0
  /\ prob = <<>>

ScoresNext == GetEventCodesDone(1) \/ GetMatchesDone(1)

SpecScores == ScoresInit /\ [][ScoresNext]_vars

(***************************************************************************)
(* allianceWinProbability on its own: SpecProb calls it, then calls it      *)
(* again with the alliances exchanged or with two teammates exchanged.      *)
(***************************************************************************)
Apply(args) ==
  allianceWinProbability(args[1], args[2], args[3], args[4],
                         args[5], args[6], args[7], args[8])

\* <<mu1, sigma1, mu2, sigma2, mu3, sigma3, mu4, sigma4>> with the alliances,
\* or the teammates of one alliance, exchanged
Exchange(args, what) ==
  CASE what = "alliances" ->
         <<args[5], args[6], args[7], args[8], args[1], args[2], args[3], args[4]>>
    [] what = "red" ->
         <<args[3], args[4], args[1], args[2], args[5], args[6], args[7], args[8]>>
    [] what = "blue" ->
         <<args[1], args[2], args[3], args[4], args[7], args[8], args[5], args[6]>>

ProbInit ==
  /\ teams = InitialTeams
  /\ result = NullResult
  /\ chartData = <<>>
  /\ loading = FALSE
  /\ error = NoError
  /\ pc = "prob"
  /\ fetch = [i \in Slots |-> NoFetch]
  /\ stats = <<>>
  /\ redData = <<>>
  /\ gen = IdleGen
  /\ api = EarlySeason
  /\ edits = 0
  /\ \E mu1 \in {Odd(1, 15), Half205}, mu2 \in {Odd(1, 15)},
        mu3 \in {Odd(1, 15), Half205}, mu4 \in {Odd(1, 15), Half205},
        sigma1 \in {Zero, Odd(1, 5), Root800}, sigma2 \in {Zero, Tenth},
        sigma3 \in {Zero, Odd(1, 5), Root800}, sigma4 \in {Zero, Tenth} :
       prob = [pc |-> "call", args |-> <<mu1, sigma1, mu2, sigma2, mu3, sigma3, mu4, sigma4>>,
               out |-> None, exchanged |-> "none", before |-> <<>>]

ProbCall ==
  /\ prob.pc = "call"
  /\ prob' = [prob EXCEPT !.pc = "done", !.out = Apply(prob.args)]
  /\ UNCHANGED <<teams, result, chartData, loading, error, pc, fetch, stats,
                 redData, gen, api, edits>>

ProbExchange(what) ==
  /\ prob.pc = "done"
  /\ prob.exchanged = "none"
  /\ prob' = [pc |-> "call", args |-> Exchange(prob.args, what), out |-> None,
              exchanged |-> what, before |-> [args |-> prob.args, out |-> prob.out]]
  /\ UNCHANGED <<teams, result, chartData, loading, error, pc, fetch, stats,
                 redData, gen, api, edits>>

ProbNext ==
  \/ ProbCall
  \/ \E what \in {"alliances", "red", "blue"} : ProbExchange(what)

SpecProb == ProbInit /\ [][ProbNext]_vars

(***************************************************************************)
(* Properties of the score aggregator (SpecScores).                         *)
(***************************************************************************)
\* the score of teamNumber in a match.  With own = TRUE, the score entry of
\* the team's alliance: the entry red or blue of the scores of the match, by
\* the colour of the team's entry, NoScore when the match has no entry for
\* the team or no score entry for its colour.  With own = FALSE, what
\* getMatches reads as the score.
UsableScore(match, teamNumber, own) ==
  LET Entry(colour) ==
        IF colour = <<114, 101, 100>> THEN match.scores.red
        ELSE IF colour = <<98, 108, 117, 101>> THEN match.scores.blue
        ELSE IF own THEN NoScore
        ELSE ScoreOf(match.scores, colour)
      Of(k) == IF k = 0 \/ ~match.scores.present THEN NoScore
               ELSE Entry(ToLowerCase(match.teams.list[k].alliance))
  IN  Of(IF match.teams.present THEN FindTeam(match.teams.list, teamNumber, 1) ELSE 0)

\* the scores (UsableScore) that are present in the first n events that have
\* stats, in the order of the events and of the matches
RECURSIVE UsableUpTo(_, _, _, _, _)
UsableUpTo(a, teamNumber, kept, n, own) ==
  IF n = 0 THEN <<>>
  ELSE LET data == a.matches[kept[n].eventCode]
           all  == [i \in 1..Len(data) |-> UsableScore(data[i], teamNumber, own)]
       IN  UsableUpTo(a, teamNumber, kept, n - 1, own)
           \o SelectSeq(all, LAMBDA score : score.present)

\* the score entries of the usable matches of the events invocation f has
\* gone through (own = TRUE), or the scores it has read there (own = FALSE)
Gathered(f, own) ==
  IF f.pc = "getEventCodes" THEN <<>>
  ELSE UsableUpTo(api, f.team, SelectSeq(api.events[f.team], LAMBDA e : e.stats),
                  f.next - 1, own)

\* a score entry with its four points
IsRecord(score) ==
  /\ score.present
  /\ Undefined \notin {score.autoSpecimenPoints, score.autoSamplePoints,
                       score.dcSpecimenPoints, score.dcSamplePoints}

SelectedTotal(score, auto, tele, endgame) ==
  DAdd(DAdd(IF auto = "s" THEN score.autoSamplePoints ELSE score.autoSpecimenPoints,
            IF tele = "s" THEN score.dcSamplePoints ELSE score.dcSpecimenPoints),
       FromInt(endgame))

\* C1: every total of the series stands for one score that getMatches read,
\* in order, and when that score is a match record the total is its selected
\* autonomous component plus its selected driver-controlled component plus
\* the endgame scalar, and nothing else.
C1_MatchTotals ==
  LET f == fetch[1]
  IN  \A i \in 1..Len(f.allScores) :
        /\ i <= Len(Gathered(f, FALSE))
        /\ IsRecord(Gathered(f, FALSE)[i]) =>
             f.allScores[i] = SelectedTotal(Gathered(f, FALSE)[i], f.auto, f.tele, f.endgame)

\* a finished series of several match records, sample autonomous and specimen
\* tele-op
C1_Witness ==
  /\ fetch[1].pc = "done"
  /\ fetch[1].auto = "s" /\ fetch[1].tele = "S" /\ fetch[1].endgame = 30
  /\ Len(fetch[1].allScores) >= 3
  /\ \A i \in 1..Len(fetch[1].allScores) : IsRecord(Gathered(fetch[1], FALSE)[i])

\* C2: after each event the series holds exactly one total per usable match
\* of the events gone through so far (a match without a team entry or without
\* a score entry for the team's colour adds nothing), so the finished series
\* has one total per usable match, event by event.
C2_OnePerUsableMatch == Len(fetch[1].allScores) = Len(Gathered(fetch[1], TRUE))

(***************************************************************************)
(* Properties of generateNormalData (SpecCurve).                            *)
(***************************************************************************)
IsPositive(x) == x.k \in {"fin", "inf"} /\ x.s = 1 /\ ~IsZero(x)

\* the x of a point for the value v of the loop variable
Rounded(v) == ParseFloat(ToFixed2(v))

\* C5: for a finite mean and a stddev > 0, the call returns exactly 51 points
\* with strictly increasing x, from mean - 3 stddev to mean + 3 stddev (each
\* rounded to 2 decimals), every y >= 0 and every point with the given label.
C5_FiftyOnePoints ==
  (gen.pc = "done" /\ gen.mean.k = "fin" /\ gen.std.k = "fin" /\ IsPositive(gen.std)) =>
    /\ Len(gen.data) = 51
    /\ \A i \in 1..(Len(gen.data) - 1) : DLt(gen.data[i].x, gen.data[i + 1].x)
    /\ gen.data[1].x = Rounded(DSub(gen.mean, DMul(FromInt(3), gen.std)))
    /\ gen.data[Len(gen.data)].x = Rounded(DAdd(gen.mean, DMul(FromInt(3), gen.std)))
    /\ \A i \in 1..Len(gen.data) :
         /\ DLe(Zero, gen.data[i].y)
         /\ gen.data[i].label = gen.label

\* C9: the loop of generateNormalData ends for every input.  The loop test
\* reads only x and max, and max never changes: an iteration that stays in
\* the loop must change x, or the loop never ends.
C9_LoopAdvances ==
  [][gen.pc = "loop" /\ gen'.pc = "loop" => IsNaN(gen'.x) \/ DCmp(gen'.x, gen.x) # 0]_vars

(***************************************************************************)
(* Properties of allianceWinProbability (SpecProb).                         *)
(***************************************************************************)
ArgsSigmaD(args) == sigmaD(args[2], args[4], args[6], args[8])

\* the argument muD / sigmaD of the standard normal cdf
ArgsZ(args) == DDiv(muD(args[1], args[3], args[5], args[7]), ArgsSigmaD(args))

\* p = 1 - q up to the rounding of the two Numbers: p + q is within 2^-52,
\* one unit in the last place of 1, of 1
Complementary(p, q) ==
  LET d == DSub(DAdd(p, q), FromInt(1))
  IN  d.k = "fin" /\ DLe(IF d.s < 0 THEN DNeg(d) ELSE d, Fin(1, <<1>>, -52))

\* C6: with sigmaD > 0, exchanging the alliances leaves sigmaD unchanged and
\* negates muD / sigmaD, and the two results add up to 1; with equal combined
\* means the result is 0.5; exchanging the teammates of an alliance leaves
\* the result unchanged.
C6_ComplementSymmetry ==
  prob.pc = "done" =>
    /\ (prob.exchanged = "alliances"
          /\ ArgsSigmaD(prob.args).k = "fin" /\ IsPositive(ArgsSigmaD(prob.args))) =>
         /\ ArgsSigmaD(prob.args) = ArgsSigmaD(prob.before.args)
         /\ DCmp(ArgsZ(prob.args), DNeg(ArgsZ(prob.before.args))) = 0
         /\ Complementary(prob.out, prob.before.out)
    /\ (DAdd(prob.args[1], prob.args[3]) = DAdd(prob.args[5], prob.args[7])
          /\ ArgsSigmaD(prob.args).k = "fin" /\ IsPositive(ArgsSigmaD(prob.args))) =>
         prob.out = Fin(1, <<1>>, -1)
    /\ prob.exchanged \in {"red", "blue"} => prob.out = prob.before.out

\* the alliances were exchanged, the teammates differ, and the two results are
\* two different probabilities strictly between 0 and 1
C6_Witness ==
  /\ prob.pc = "done"
  /\ prob.exchanged = "alliances"
  /\ prob.out.k = "fin" /\ DLt(Zero, prob.out) /\ DLt(prob.out, Fin(1, <<1>>, -1))
  /\ prob.args[2] # prob.args[4]
  /\ prob.args[5] # prob.args[7]

(***************************************************************************)
(* Properties of calculate (Spec, FairSpec).                                *)
(***************************************************************************)
\* C3: when one of the four series has fewer than 2 totals the request
\* fails: an error is shown and no win probability is produced.
C3_InsufficientDataFails ==
  (pc \in {"red", "blue"} /\ \E i \in Slots : Len(fetch[i].allScores) < 2) =>
    (error # NoError /\ result = NullResult)

\* C4: a displayed win probability is a number between 0 and 1 (here in
\* hundredths of a percent, 0 to 10000), never NaN.
C4_ProbabilityInRange ==
  result # NullResult =>
    /\ result.k = "fin"
    /\ result.s = 1 \/ result.n = <<>>
    /\ BCmp(result.n, IntToBig(10000)) <= 0

\* C7: whenever an error is set, whatever step of calculate has failed, the
\* result is null and the chart is empty: an error and a win probability are
\* never shown together.
C7_ErrorsAreTerminal == error # NoError => (result = NullResult /\ chartData = <<>>)

\* a request of a calculation with four valid teams and an edited mode was
\* rejected and the catch block has run
C7_Witness ==
  /\ error = ComputeError
  /\ pc = "idle" /\ ~loading
  /\ ValidateFrom(teams, 1) = NoError
  /\ teams[1].tele = "s"
  /\ result = NullResult /\ chartData = <<>>

\* the series of a sequential run of the invocation f
Sequential(f) == getAllScores(api, f.team, f.auto, f.tele, f.endgame)

\* C8: however the four retrievals interleave, when calculate goes on every
\* retrieval has finished, series i is the one a sequential getAllScores
\* returns for the arguments of invocation i, and the statistics, the win
\* probability and the arguments of the two curves are those computed from
\* the sequential series.
C8_OrderIndependent ==
  pc \in {"red", "blue"} =>
    /\ \A i \in Slots :
         fetch[i].pc = "done" /\ fetch[i].allScores = Sequential(fetch[i])
    /\ (pc = "red" /\ gen.data = <<>>) =>
         LET st == Stats([i \in Slots |-> Sequential(fetch[i])])
         IN  /\ stats = st
             /\ result = ResultText(WinProb(st))
             /\ gen.mean = AllianceMean(st, 1, 2)
             /\ gen.std = AllianceStd(st, 1, 2)
             /\ gen.label = "Red Alliance"
    /\ (pc = "blue" /\ gen.data = <<>>) =>
         /\ gen.mean = AllianceMean(stats, 3, 4)
         /\ gen.std = AllianceStd(stats, 3, 4)
         /\ gen.label = "Blue Alliance"

\* two different teams with different series, red 1 with three totals
C8_Witness ==
  /\ pc = "blue"
  /\ fetch[1].team = 7 /\ fetch[3].team = 8
  /\ Len(fetch[1].allScores) = 3
  /\ fetch[1].allScores # fetch[2].allScores
  /\ stats[1] # stats[3]
  /\ result.k = "fin"

\* C10: once loading is true it is eventually set back to false, given that
\* the requests settle.
C10_LoadingEventuallyCleared == loading ~> ~loading

=============================================================================
